---- MODULE Spec2Model ----
(***************************************************************************)
(* A model of src/src/main.js: the sales report analyzeSalesData and its   *)
(* two default strategies, calculateSimpleRevenue and                      *)
(* calculateBonusByProfit.                                                 *)
(*                                                                         *)
(* Numbers.  A JavaScript number is an integer count of 1/100000 (so 1.00  *)
(* is 100000 and a cent is 1000), or the value NaN.  Inputs are chosen so  *)
(* that every product of the code is exact in that unit; the binary        *)
(* rounding of IEEE doubles is not modelled.  An absent field reads as     *)
(* Undefined.  Seller names are carried by the code but take no part in    *)
(* any computation and are left out.                                       *)
(***************************************************************************)
EXTENDS Integers, Sequences, FiniteSets, TLC

VARIABLES
    call,             \* which exported function the caller invoked, with scalar arguments
    data, options,    \* the arguments of analyzeSalesData
    pc,               \* position in the called function
    error,            \* the exception that left the function, "none" while there is none
    calculateRevenue, calculateBonus,  \* the strategies bound at lines 74-75
    sellerIndex, productIndex,         \* the two lookup objects (own properties)
    heap,             \* the SellerStat objects, by creation order; a handle is an index
    sellerStats,      \* the array sellerStats: a sequence of handles
    objectCtor,       \* the properties the fold has put on the global Object function
    ri,               \* number of purchase records already folded
    warnings,         \* what console.warn was given
    out,              \* the array analyzeSalesData returned
    ret               \* the value a directly called strategy returned

vars == <<call, data, options, pc, error, calculateRevenue, calculateBonus,
          sellerIndex, productIndex, heap, sellerStats, objectCtor, ri,
          warnings, out, ret>>

----------------------------------------------------------------------------
(* Bounds of the model. *)
MaxSellers == 2
MaxRecords == 2
MaxTotal == 5

----------------------------------------------------------------------------
(* JavaScript values and arithmetic. *)

NaN == -999999999
Undefined == -999999998

IsNum(x) == x # NaN /\ x # Undefined

\* ToNumber(undefined) is NaN; every arithmetic operator yields NaN on a NaN operand.
JsAdd(a, b) == IF IsNum(a) /\ IsNum(b) THEN a + b ELSE NaN
JsSub(a, b) == IF IsNum(a) /\ IsNum(b) THEN a - b ELSE NaN
\* a is money (unit 1/100000), q a plain count.
JsMul(a, q) == IF IsNum(a) /\ IsNum(q) THEN a * q ELSE NaN
\* Every comparison with NaN is false.
JsLt(a, b) == IsNum(a) /\ IsNum(b) /\ a < b
JsLe(a, b) == IsNum(a) /\ IsNum(b) /\ a <= b
JsGt(a, b) == IsNum(a) /\ IsNum(b) /\ a > b
\* !x for a number x: true of 0, NaN and undefined.
Falsy(x) == x = 0 \/ ~IsNum(x)

\* Math.round(profit * rate * 100) / 100 with rate = pct/100: round to the cent,
\* halves toward +Infinity.
RoundedShare(profit, pct) ==
    IF ~IsNum(profit) THEN NaN
    ELSE ((2 * profit * pct + 100000) \div 200000) * 1000

\* parseFloat(x.toFixed(2)): round to the cent, halves away from zero.
ToFixed2(x) ==
    IF ~IsNum(x) THEN NaN
    ELSE IF x >= 0 THEN ((x + 500) \div 1000) * 1000
    ELSE 0 - (((0 - x) + 500) \div 1000) * 1000

----------------------------------------------------------------------------
(* calculateSimpleRevenue, lines 7-26.  The result is either a thrown      *)
(* Error or a number.                                                      *)

Thrown(e) == [throws |-> TRUE, error |-> e, value |-> NaN]
Returned(v) == [throws |-> FALSE, error |-> "none", value |-> v]

\* A variant without the check quantity <= 0 of line 14.
CalculateSimpleRevenueNoQuantityCheck(purchase, product) ==
    LET discount == IF purchase.discount = Undefined THEN 0 ELSE purchase.discount
        sale_price == purchase.sale_price
        quantity == purchase.quantity
    IN  IF sale_price = Undefined \/ quantity = Undefined
        THEN Thrown("ItemValidationError")
        ELSE IF JsLt(sale_price, 0)
        THEN Thrown("ItemValidationError")
        ELSE IF JsLt(discount, 0) \/ JsGt(discount, 100)
        THEN Thrown("ItemValidationError")
        ELSE Returned((sale_price * quantity * (100 - discount)) \div 100)

CalculateSimpleRevenue(purchase, product) ==
    LET discount == IF purchase.discount = Undefined THEN 0 ELSE purchase.discount
        sale_price == purchase.sale_price
        quantity == purchase.quantity
    IN  IF sale_price = Undefined \/ quantity = Undefined
        THEN Thrown("ItemValidationError")
        ELSE IF JsLt(sale_price, 0) \/ JsLe(quantity, 0)
        THEN Thrown("ItemValidationError")
        ELSE IF JsLt(discount, 0) \/ JsGt(discount, 100)
        THEN Thrown("ItemValidationError")
        ELSE Returned((sale_price * quantity * (100 - discount)) \div 100)

(* calculateBonusByProfit, lines 35-52. *)

CalculateBonusByProfit(index, total, seller) ==
    IF total <= 0 THEN 0
    ELSE IF index < 0 \/ index >= total THEN 0
    ELSE IF JsLe(seller.profit, 0) THEN 0
    ELSE IF index = 0 THEN RoundedShare(seller.profit, 15)
    ELSE IF index = 1 \/ index = 2 THEN RoundedShare(seller.profit, 10)
    ELSE IF index = total - 1 THEN 0
    ELSE RoundedShare(seller.profit, 5)

(* Strategies a caller passes in options.  They are the caller's code: a   *)
(* revenue strategy that checks nothing and ignores the discount, and a    *)
(* bonus strategy that pays every seller the same flat amount.             *)

CallerRevenue(purchase, product) ==
    Returned(JsMul(purchase.sale_price, purchase.quantity))

CallerBonus(index, total, seller) == 100000

ApplyRevenue(strategy, purchase, product) ==
    IF strategy = "calculateSimpleRevenue"
    THEN CalculateSimpleRevenue(purchase, product)
    ELSE CallerRevenue(purchase, product)

ApplyBonus(strategy, index, total, seller) ==
    IF strategy = "calculateBonusByProfit"
    THEN CalculateBonusByProfit(index, total, seller)
    ELSE CallerBonus(index, total, seller)

----------------------------------------------------------------------------
(* Objects used as maps.  sellerIndex, productIndex and products_sold are  *)
(* created as {} : a read of a key that is no own property falls through   *)
(* to Object.prototype, where "constructor" names the Object function.     *)

ObjectPrototypeKeys == {"constructor"}

\* Handle of the Object function, and of "no such property".
ObjectCtor == -1
NoHandle == 0

\* sellerIndex[key], line 101.
SellerLookup(index, key) ==
    IF key \in DOMAIN index THEN index[key]
    ELSE IF key \in ObjectPrototypeKeys THEN ObjectCtor
    ELSE NoHandle

\* productIndex[key], line 115.  The Object function has no purchase_price.
\* (The items of this model never carry a sku that names a property of
\* Object.prototype, so products_sold is only ever read at own keys.)
ProductLookup(index, key) ==
    IF key \in DOMAIN index THEN [found |-> TRUE, purchase_price |-> index[key].purchase_price]
    ELSE IF key \in ObjectPrototypeKeys THEN [found |-> TRUE, purchase_price |-> Undefined]
    ELSE [found |-> FALSE, purchase_price |-> Undefined]

\* Keys that are canonical array indices: Object.entries lists them first,
\* in ascending numeric order, and only then the other keys in creation order.
ArrayIndexKeys == ("1" :> 1) @@ ("2" :> 2)

EmptyObject == [k \in {} |-> NoHandle]

----------------------------------------------------------------------------
(* The inputs.  Money is in units of 1/100000.                             *)

SellerIds == {"s1", "s2"}

Item(sku, sale_price, quantity, discount) ==
    [sku |-> sku, sale_price |-> sale_price, quantity |-> quantity, discount |-> discount]

Product(sku, purchase_price) == [sku |-> sku, purchase_price |-> purchase_price]

BigSkus == <<"k01", "k02", "k03", "k04", "k05", "k06", "k07", "k08", "k09", "k10", "k11">>

\* The catalogue: sku "a" twice (the later card wins in the index), "b"
\* without purchase_price, two skus that are array indices, and eleven more.
Catalogue ==
    << Product("a", 500000), Product("a", 300000), Product("b", Undefined),
       Product("2", 100000), Product("1", 100000) >>
    \o [i \in 1..Len(BigSkus) |-> Product(BigSkus[i], 100000)]

\* Item lists of a purchase record.
ItemsGood == << Item("zz", 100000, 1, 0), Item("a", 1000500, 2, 10), Item("a", 1000000, 1, Undefined) >>
ItemsOne == << Item("a", 1000000, 1, Undefined) >>
ItemsIndexKeys == << Item("a", 1000000, 1, 0), Item("2", 200000, 1, 0), Item("1", 200000, 1, 0) >>
ItemsLoss == << Item("a", 100000, 1, 0) >>
ItemsNoCost == << Item("b", 500000, 1, 0) >>
ItemsBad == << Item("a", 1000000, 1, 0), Item("a", 1000000, -1, 0) >>
\* Twelve items over eleven skus; the quantities alternate 2, 1 and k01 comes twice.
ItemsBig ==
    [i \in 1..Len(BigSkus) |-> Item(BigSkus[i], 200000, 1 + (i % 2), 0)]
    \o << Item("k01", 200000, 1, 0) >>

Record(seller_id, total_amount, total_discount, items) ==
    [seller_id |-> seller_id, total_amount |-> total_amount,
     total_discount |-> total_discount, items |-> items]

PurchaseRecords ==
    { Record("s1", 3000000, 100500, ItemsGood),
      Record("s2", 3000000, 100500, ItemsGood),
      Record("s1", 1000000, 0, ItemsOne),
      Record("s2", 1400000, 0, ItemsIndexKeys),
      Record("s2", 100000, Undefined, ItemsLoss),
      Record("s1", 500000, 0, ItemsNoCost),
      Record("s2", 2000000, 0, ItemsBad),
      Record("s1", 2600000, 0, ItemsBig),
      Record("nobody", 3000000, 0, ItemsGood),
      Record("constructor", 3000000, 0, ItemsOne) }

SeqsUpTo(S, n) == UNION { [1..k -> S] : k \in 0..n }

Array(elems) == [tag |-> "array", elems |-> elems]
Missing == [tag |-> "missing", elems |-> <<>>]
NotArray == [tag |-> "notarray", elems |-> <<>>]

DataObject(sellers, products, purchase_records) ==
    [kind |-> "object", sellers |-> sellers, products |-> products,
     purchase_records |-> purchase_records]
NotAnObject(kind) ==
    [kind |-> kind, sellers |-> Missing, products |-> Missing, purchase_records |-> Missing]

Options(given, revenue, bonus) ==
    [given |-> given, calculateRevenue |-> revenue, calculateBonus |-> bonus]
OptionsOmitted == Options(FALSE, FALSE, FALSE)
OptionsGiven == { Options(TRUE, r, b) : r \in BOOLEAN, b \in BOOLEAN }

SellersOf(ids) == [i \in 1..Len(ids) |-> [id |-> ids[i]]]

\* Calls with three collections that are arrays, none of them empty.
FullCalls ==
    { [data |-> DataObject(Array(SellersOf(ids)), Array(Catalogue), Array(recs)),
       options |-> o] :
        ids \in SeqsUpTo(SellerIds, MaxSellers) \ {<<>>},
        recs \in SeqsUpTo(PurchaseRecords, MaxRecords) \ {<<>>},
        o \in OptionsGiven }

\* Calls whose data is not an object, or has a collection that is missing,
\* not an array, or an empty array; and the call that passes no options.
ShapeCollections(full) == {Missing, NotArray, Array(<<>>), Array(full)}
ShortRecords == << Record("s1", 1000000, 0, ItemsOne) >>
ShapeCalls ==
    { [data |-> d, options |-> o] :
        d \in {NotAnObject("null"), NotAnObject("string")} \cup
              { DataObject(s, p, r) :
                  s \in ShapeCollections(SellersOf(<<"s1", "s2">>)),
                  p \in ShapeCollections(Catalogue),
                  r \in ShapeCollections(ShortRecords) },
        o \in {OptionsOmitted, Options(TRUE, FALSE, FALSE)} }

\* Direct calls of the two exported strategies.
BonusProfits == {-200000, 0, 700000, 1900900}
BonusCalls ==
    { [fn |-> "calculateBonusByProfit", index |-> i, total |-> t, profit |-> p,
       purchase |-> Item("a", 0, 0, 0)] :
        i \in -1..MaxTotal, t \in 0..MaxTotal, p \in BonusProfits }
RevenueCalls ==
    { [fn |-> "calculateSimpleRevenue", index |-> 0, total |-> 0, profit |-> 0,
       purchase |-> Item("a", sp, q, d)] :
        sp \in {Undefined, -100000, 0, 1000500},
        q \in {Undefined, -1, 0, 2},
        d \in {Undefined, -1, 0, 10, 100, 101} }
AnalyzeCall ==
    [fn |-> "analyzeSalesData", index |-> 0, total |-> 0, profit |-> 0,
     purchase |-> Item("a", 0, 0, 0)]

UntouchedCtor == [sales_count |-> Undefined, revenue |-> Undefined, profit |-> Undefined]

Fresh ==
    /\ pc = "start"
    /\ error = "none"
    /\ calculateRevenue = "unbound"
    /\ calculateBonus = "unbound"
    /\ sellerIndex = EmptyObject
    /\ productIndex = EmptyObject
    /\ heap = <<>>
    /\ sellerStats = <<>>
    /\ objectCtor = UntouchedCtor
    /\ ri = 0
    /\ warnings = <<>>
    /\ out = <<>>
    /\ ret = Undefined

Init ==
    /\ \/ /\ call = AnalyzeCall
          /\ \E c \in FullCalls \cup ShapeCalls :
                data = c.data /\ options = c.options
       \/ /\ call \in BonusCalls \cup RevenueCalls
          /\ data = NotAnObject("null")
          /\ options = OptionsOmitted
    /\ Fresh

----------------------------------------------------------------------------
(* analyzeSalesData, lines 60-160. *)

\* Lines 62-71: the first check that fails, or "none".
ValidationError(d) ==
    IF d.kind = "null" THEN "InputShapeError"
    ELSE IF d.kind # "object" THEN "InputShapeError"
    ELSE IF \E key \in {"sellers", "products", "purchase_records"} : d[key].tag # "array"
    THEN "InputShapeError"
    ELSE "none"

Validate ==
    /\ pc = "start"
    /\ call.fn = "analyzeSalesData"
    /\ IF ValidationError(data) # "none"
       THEN /\ error' = ValidationError(data)
            /\ pc' = "error"
       ELSE /\ pc' = "options"
            /\ UNCHANGED error
    /\ UNCHANGED <<call, data, options, calculateRevenue, calculateBonus, sellerIndex,
                   productIndex, heap, sellerStats, objectCtor, ri, warnings, out, ret>>

\* Lines 74-75: options.calculateRevenue || calculateSimpleRevenue.  Reading a
\* property of undefined throws a TypeError.
ResolveOptions ==
    /\ pc = "options"
    /\ IF ~options.given
       THEN /\ error' = "OptionsTypeError"
            /\ pc' = "error"
            /\ UNCHANGED <<calculateRevenue, calculateBonus>>
       ELSE /\ calculateRevenue' =
                  IF options.calculateRevenue THEN "caller" ELSE "calculateSimpleRevenue"
            /\ calculateBonus' =
                  IF options.calculateBonus THEN "caller" ELSE "calculateBonusByProfit"
            /\ pc' = "indexSellers"
            /\ UNCHANGED error
    /\ UNCHANGED <<call, data, options, sellerIndex, productIndex, heap, sellerStats,
                   objectCtor, ri, warnings, out, ret>>

\* Lines 84-90: the accumulator made for one seller.
NewStat(seller) ==
    [id |-> seller.id, sales_count |-> 0, revenue |-> 0, profit |-> 0,
     products_sold |-> <<>>, bonus |-> Undefined, top_products |-> <<>>]

\* The index an array of keyed elements leaves behind when each element is
\* stored under its key in turn: the last element with a key wins.
LastWith(keys, k) == CHOOSE i \in 1..Len(keys) :
    keys[i] = k /\ \A j \in (i + 1)..Len(keys) : keys[j] # k

\* A variant that fills sellerStats from the values of sellerIndex, one per
\* distinct id, instead of pushing once per element of data.sellers.
IndexSellersFromIndex ==
    /\ pc = "indexSellers"
    /\ LET sellers == data.sellers.elems
           ids == [i \in 1..Len(sellers) |-> sellers[i].id]
           firsts == SelectSeq([i \in 1..Len(ids) |-> i],
                               LAMBDA i : \A j \in 1..(i - 1) : ids[j] # ids[i])
       IN  /\ heap' = [i \in 1..Len(sellers) |-> NewStat(sellers[i])]
           /\ sellerStats' = [n \in 1..Len(firsts) |-> LastWith(ids, ids[firsts[n]])]
           /\ sellerIndex' = [k \in {ids[i] : i \in 1..Len(ids)} |-> LastWith(ids, k)]
    /\ pc' = "indexProducts"
    /\ UNCHANGED <<call, data, options, error, calculateRevenue, calculateBonus,
                   productIndex, objectCtor, ri, warnings, out, ret>>

\* Lines 83-92.
IndexSellers ==
    /\ pc = "indexSellers"
    /\ LET sellers == data.sellers.elems
           ids == [i \in 1..Len(sellers) |-> sellers[i].id]
       IN  /\ heap' = [i \in 1..Len(sellers) |-> NewStat(sellers[i])]
           /\ sellerStats' = [i \in 1..Len(sellers) |-> i]
           /\ sellerIndex' = [k \in {ids[i] : i \in 1..Len(ids)} |-> LastWith(ids, k)]
    /\ pc' = "indexProducts"
    /\ UNCHANGED <<call, data, options, error, calculateRevenue, calculateBonus,
                   productIndex, objectCtor, ri, warnings, out, ret>>

\* Lines 95-97.
IndexProducts ==
    /\ pc = "indexProducts"
    /\ LET products == data.products.elems
           skus == [i \in 1..Len(products) |-> products[i].sku]
       IN  productIndex' =
               [k \in {skus[i] : i \in 1..Len(skus)} |-> products[LastWith(skus, k)]]
    /\ pc' = "fold"
    /\ UNCHANGED <<call, data, options, error, calculateRevenue, calculateBonus,
                   sellerIndex, heap, sellerStats, objectCtor, ri, warnings, out, ret>>

\* Lines 129-132 on products_sold, kept as the sequence of its own
\* properties in creation order.
SoldAdd(sold, sku, quantity) ==
    IF \E i \in 1..Len(sold) : sold[i].sku = sku
    THEN LET i == CHOOSE j \in 1..Len(sold) : sold[j].sku = sku
             before == IF Falsy(sold[i].quantity) THEN 0 ELSE sold[i].quantity
         IN  [sold EXCEPT ![i].quantity = JsAdd(before, quantity)]
    ELSE Append(sold, [sku |-> sku, quantity |-> JsAdd(0, quantity)])

\* Lines 115-132: one item of a record of the seller with handle h.  st holds
\* what the fold has written so far and the exception, if one was thrown.
FoldItem(st, h, item, pIndex, revenueStrategy) ==
    IF st.error # "none" THEN st
    ELSE LET product == ProductLookup(pIndex, item.sku)
         IN  IF ~product.found
             THEN [st EXCEPT !.warnings = Append(@, item.sku)]
             ELSE LET cost == JsMul(product.purchase_price, item.quantity)
                      itemRevenue == ApplyRevenue(revenueStrategy, item, product)
                      gain == JsSub(itemRevenue.value, cost)
                  IN  IF itemRevenue.throws
                      THEN [st EXCEPT !.error = itemRevenue.error]
                      ELSE IF h = ObjectCtor
                      \* Object.products_sold is undefined: reading [sku] of it throws.
                      THEN [st EXCEPT !.ctor.profit = JsAdd(@, gain),
                                      !.error = "ProductsSoldTypeError"]
                      ELSE [st EXCEPT !.heap[h].profit = JsAdd(@, gain),
                                      !.heap[h].products_sold =
                                          SoldAdd(@, item.sku, item.quantity)]

RECURSIVE FoldItems(_, _, _, _, _)
FoldItems(st, h, items, pIndex, revenueStrategy) ==
    IF items = <<>> THEN st
    ELSE FoldItems(FoldItem(st, h, Head(items), pIndex, revenueStrategy),
                   h, Tail(items), pIndex, revenueStrategy)

\* Lines 108-111.
CountSale(st, h, record) ==
    LET net == JsSub(record.total_amount, record.total_discount)
    IN  IF h = ObjectCtor
        THEN [st EXCEPT !.ctor.sales_count = JsAdd(@, 1), !.ctor.revenue = JsAdd(@, net)]
        ELSE [st EXCEPT !.heap[h].sales_count = JsAdd(@, 1),
                        !.heap[h].revenue = JsAdd(@, net)]

\* Lines 100-134: the callback of purchase_records.forEach on one record.
FoldRecord ==
    /\ pc = "fold"
    /\ ri < Len(data.purchase_records.elems)
    /\ LET record == data.purchase_records.elems[ri + 1]
           h == SellerLookup(sellerIndex, record.seller_id)
           st0 == [heap |-> heap, ctor |-> objectCtor, warnings |-> warnings,
                   error |-> "none"]
           st == IF h = NoHandle
                 THEN [st0 EXCEPT !.warnings = Append(@, record.seller_id)]
                 ELSE FoldItems(CountSale(st0, h, record), h, record.items,
                                productIndex, calculateRevenue)
       IN  /\ heap' = st.heap
           /\ objectCtor' = st.ctor
           /\ warnings' = st.warnings
           /\ error' = st.error
           /\ IF st.error # "none"
              THEN pc' = "error" /\ UNCHANGED ri
              ELSE pc' = "fold" /\ ri' = ri + 1
    /\ UNCHANGED <<call, data, options, calculateRevenue, calculateBonus, sellerIndex,
                   productIndex, sellerStats, out, ret>>

\* Line 137: sellerStats.sort((a, b) => b.profit - a.profit).  Array.prototype.sort
\* is stable.  When a profit is NaN the comparator returns NaN, it is no
\* consistent comparator, and the order of the result is implementation-defined.
Orderings(seq) ==
    { p \in [1..Len(seq) -> {seq[i] : i \in 1..Len(seq)}] :
        \A i, j \in 1..Len(seq) : i # j => p[i] # p[j] }

Position(seq, x) == CHOOSE i \in 1..Len(seq) : seq[i] = x

SortedByProfit(before, after, objects) ==
    \/ \E i \in 1..Len(before) : ~IsNum(objects[before[i]].profit)
    \/ \A i, j \in 1..Len(after) : i < j =>
          \/ objects[after[i]].profit > objects[after[j]].profit
          \/ /\ objects[after[i]].profit = objects[after[j]].profit
             /\ Position(before, after[i]) < Position(before, after[j])

SortSellers ==
    /\ pc = "fold"
    /\ ri = Len(data.purchase_records.elems)
    /\ \E p \in Orderings(sellerStats) :
          /\ SortedByProfit(sellerStats, p, heap)
          /\ sellerStats' = p
    /\ pc' = "bonus"
    /\ UNCHANGED <<call, data, options, error, calculateRevenue, calculateBonus,
                   sellerIndex, productIndex, heap, objectCtor, ri, warnings, out, ret>>

\* Object.entries(products_sold), line 144: the keys that are array indices in
\* ascending numeric order, then the other keys in creation order.
RECURSIVE AscendingIndexKeys(_)
AscendingIndexKeys(entries) ==
    IF entries = <<>> THEN <<>>
    ELSE LET m == CHOOSE i \in 1..Len(entries) :
                      \A j \in 1..Len(entries) :
                          ArrayIndexKeys[entries[i].sku] <= ArrayIndexKeys[entries[j].sku]
         IN  <<entries[m]>> \o
             AscendingIndexKeys(SubSeq(entries, 1, m - 1) \o SubSeq(entries, m + 1, Len(entries)))

IsIndexKey(e) == e.sku \in DOMAIN ArrayIndexKeys
IsNameKey(e) == e.sku \notin DOMAIN ArrayIndexKeys

ObjectEntries(sold) ==
    AscendingIndexKeys(SelectSeq(sold, IsIndexKey)) \o SelectSeq(sold, IsNameKey)

\* Line 146: .sort((a, b) => b.quantity - a.quantity), a stable sort: each
\* entry goes behind every entry whose quantity is not smaller.
RECURSIVE InsertByQuantity(_, _)
InsertByQuantity(sorted, e) ==
    IF sorted = <<>> THEN <<e>>
    ELSE IF sorted[Len(sorted)].quantity >= e.quantity THEN Append(sorted, e)
    ELSE Append(InsertByQuantity(SubSeq(sorted, 1, Len(sorted) - 1), e), sorted[Len(sorted)])

RECURSIVE SortByQuantity(_)
SortByQuantity(entries) ==
    IF entries = <<>> THEN <<>>
    ELSE InsertByQuantity(SortByQuantity(SubSeq(entries, 1, Len(entries) - 1)),
                          entries[Len(entries)])

\* Line 147: .slice(0, 10).
TopCount == 10
Slice(seq, n) == SubSeq(seq, 1, IF Len(seq) < n THEN Len(seq) ELSE n)

\* Lines 144-147.
TopProducts(sold) == Slice(SortByQuantity(ObjectEntries(sold)), TopCount)

\* Lines 140-148: the callback of sellerStats.forEach writes bonus and
\* top_products into each object of the array.
AssignBonuses ==
    /\ pc = "bonus"
    /\ heap' = [h \in 1..Len(heap) |->
                  IF \E i \in 1..Len(sellerStats) : sellerStats[i] = h
                  THEN [heap[h] EXCEPT
                          !.bonus = ApplyBonus(calculateBonus, Position(sellerStats, h) - 1,
                                               Len(sellerStats), heap[h]),
                          !.top_products = TopProducts(heap[h].products_sold)]
                  ELSE heap[h]]
    /\ pc' = "project"
    /\ UNCHANGED <<call, data, options, error, calculateRevenue, calculateBonus,
                   sellerIndex, productIndex, sellerStats, objectCtor, ri, warnings, out, ret>>

\* Lines 151-159.
Report(seller) ==
    [seller_id |-> seller.id,
     revenue |-> ToFixed2(seller.revenue),
     profit |-> ToFixed2(seller.profit),
     sales_count |-> seller.sales_count,
     top_products |-> seller.top_products,
     bonus |-> ToFixed2(seller.bonus)]

Project ==
    /\ pc = "project"
    /\ out' = [i \in 1..Len(sellerStats) |-> Report(heap[sellerStats[i]])]
    /\ pc' = "done"
    /\ UNCHANGED <<call, data, options, error, calculateRevenue, calculateBonus,
                   sellerIndex, productIndex, heap, sellerStats, objectCtor, ri,
                   warnings, ret>>

(* The two strategies called on their own. *)

CallBonus ==
    /\ pc = "start"
    /\ call.fn = "calculateBonusByProfit"
    /\ ret' = CalculateBonusByProfit(call.index, call.total, [profit |-> call.profit])
    /\ pc' = "done"
    /\ UNCHANGED <<call, data, options, error, calculateRevenue, calculateBonus,
                   sellerIndex, productIndex, heap, sellerStats, objectCtor, ri,
                   warnings, out>>

CallRevenue ==
    /\ pc = "start"
    /\ call.fn = "calculateSimpleRevenue"
    /\ LET r == CalculateSimpleRevenue(call.purchase, Product(call.purchase.sku, 0))
       IN  IF r.throws
           THEN error' = r.error /\ pc' = "error" /\ UNCHANGED ret
           ELSE ret' = r.value /\ pc' = "done" /\ UNCHANGED error
    /\ UNCHANGED <<call, data, options, calculateRevenue, calculateBonus,
                   sellerIndex, productIndex, heap, sellerStats, objectCtor, ri,
                   warnings, out>>

Next ==
    \/ Validate
    \/ ResolveOptions
    \/ IndexSellers
    \/ IndexProducts
    \/ FoldRecord
    \/ SortSellers
    \/ AssignBonuses
    \/ Project
    \/ CallBonus
    \/ CallRevenue

Spec == Init /\ [][Next]_vars

----------------------------------------------------------------------------
(* What the input says, read off data alone. *)

Analyzing == call.fn = "analyzeSalesData"
Sellers == data.sellers.elems
Products == data.products.elems
Records == data.purchase_records.elems

Reported == Analyzing /\ pc = "done"
FoldComplete ==
    /\ Analyzing
    /\ \/ pc \in {"bonus", "project", "done"}
       \/ pc = "fold" /\ ri = Len(Records)

SellerIdsGiven == {Sellers[i].id : i \in 1..Len(Sellers)}
SkusGiven == {Products[i].sku : i \in 1..Len(Products)}
UniqueSellerIds == \A i, j \in 1..Len(Sellers) : i # j => Sellers[i].id # Sellers[j].id

\* The product card a sku names: the last one of the catalogue with that sku.
CardOf(sku) ==
    Products[CHOOSE i \in 1..Len(Products) :
        Products[i].sku = sku /\ \A j \in (i + 1)..Len(Products) : Products[j].sku # sku]

RecordsOf(id) == SelectSeq(Records, LAMBDA r : r.seller_id = id)

RECURSIVE Flatten(_)
Flatten(seqs) == IF seqs = <<>> THEN <<>> ELSE Head(seqs) \o Flatten(Tail(seqs))

\* The items of the seller's records whose sku is in the catalogue, in input order.
KnownItemsOf(id) ==
    SelectSeq(Flatten([k \in 1..Len(RecordsOf(id)) |-> RecordsOf(id)[k].items]),
              LAMBDA it : it.sku \in SkusGiven)

RECURSIVE Sum(_)
Sum(seq) == IF seq = <<>> THEN 0 ELSE JsAdd(Head(seq), Sum(Tail(seq)))

OrZero(x) == IF x = Undefined THEN 0 ELSE x

BadShape ==
    \/ data.kind # "object"
    \/ \E key \in {"sellers", "products", "purchase_records"} :
          data[key].tag # "array" \/ data[key].elems = <<>>

----------------------------------------------------------------------------
(* C1 *)

CountOf(seq, x) == Cardinality({i \in 1..Len(seq) : seq[i] = x})

OneReportPerSeller ==
    /\ Len(out) = Len(Sellers)
    /\ \A id \in SellerIdsGiven :
          CountOf([i \in 1..Len(out) |-> out[i].seller_id], id) =
          CountOf([i \in 1..Len(Sellers) |-> Sellers[i].id], id)

OwnsNoRecord(id) == \A k \in 1..Len(Records) : Records[k].seller_id # id

ZeroStats(report) ==
    /\ report.sales_count = 0
    /\ report.revenue = 0
    /\ report.profit = 0
    /\ report.top_products = <<>>

(* C1 as stated.  For every valid input analyzeSalesData returns exactly   *)
(* one report per element of data.sellers, also for sellers that own no    *)
(* purchase record; such a seller's report has sales_count 0, revenue 0,   *)
(* profit 0, empty top_products and bonus 0.                               *)
C1_Original ==
    Reported =>
        /\ OneReportPerSeller
        /\ \A i \in 1..Len(out) :
              OwnsNoRecord(out[i].seller_id) => ZeroStats(out[i]) /\ out[i].bonus = 0

(* C1 as amended.  analyzeSalesData returns exactly one report per element *)
(* of data.sellers, also for sellers that own no purchase record; such a   *)
(* seller's report has sales_count 0, revenue 0, profit 0 and empty        *)
(* top_products, and bonus 0 when the bonus strategy is the default        *)
(* calculateBonusByProfit (a strategy passed in options sets its own).     *)
C1_Amended ==
    Reported =>
        /\ OneReportPerSeller
        /\ \A i \in 1..Len(out) :
              OwnsNoRecord(out[i].seller_id) =>
                  /\ ZeroStats(out[i])
                  /\ calculateBonus = "calculateBonusByProfit" => out[i].bonus = 0

\* C1's case: a returned report of a seller without records, under the default
\* bonus strategy, beside the report of a seller that sold and earned a bonus.
C1_Witness ==
    /\ Reported
    /\ calculateBonus = "calculateBonusByProfit"
    /\ \E i, j \in 1..Len(out) :
          /\ OwnsNoRecord(out[i].seller_id)
          /\ ZeroStats(out[i]) /\ out[i].bonus = 0
          /\ out[j].sales_count > 0 /\ out[j].bonus > 0

----------------------------------------------------------------------------
(* C2.  The returned sequence is ordered by profit descending: for every   *)
(* two adjacent reports r[i].profit >= r[i+1].profit, for every input that *)
(* passes validation and does not raise.                                   *)
C2_ProfitDescending ==
    Reported =>
        \A i \in 1..(Len(out) - 1) :
            /\ IsNum(out[i].profit)
            /\ IsNum(out[i + 1].profit)
            /\ out[i].profit >= out[i + 1].profit

\* The order holds whenever no accumulated profit is NaN.
ProfitDescendingWhenNumbers ==
    (\A h \in 1..Len(heap) : IsNum(heap[h].profit)) => C2_ProfitDescending

----------------------------------------------------------------------------
(* C3.  analyzeSalesData raises an input-shape error, before any seller is *)
(* indexed or any purchase record folded, whenever data is absent or no    *)
(* object, or one of data.sellers, data.products, data.purchase_records is *)
(* missing, is not an array, or is an empty array.                         *)
C3_BadShapeRejected ==
    (Analyzing /\ BadShape) =>
        /\ pc \in {"start", "error"}
        /\ pc = "error" => error = "InputShapeError"
        /\ heap = <<>> /\ sellerIndex = EmptyObject /\ ri = 0

\* Data that is no object, or has a collection that is missing or no array, is
\* rejected that way.
NotArrays ==
    \/ data.kind # "object"
    \/ \E key \in {"sellers", "products", "purchase_records"} : data[key].tag # "array"
NotArraysRejected ==
    (Analyzing /\ NotArrays) =>
        /\ pc \in {"start", "error"}
        /\ pc = "error" => error = "InputShapeError"
        /\ heap = <<>> /\ sellerIndex = EmptyObject /\ ri = 0

----------------------------------------------------------------------------
(* C4.  Under calculateBonusByProfit, for every total > 1 the seller at    *)
(* the last rank (index = total - 1) receives bonus 0 whatever its profit, *)
(* also for total = 2 and total = 3: of the function called on its own,    *)
(* and of the last report analyzeSalesData returns.                        *)
C4_LastRankGetsZero ==
    /\ (call.fn = "calculateBonusByProfit" /\ pc = "done"
            /\ call.total > 1 /\ call.index = call.total - 1) => ret = 0
    /\ (Reported /\ calculateBonus = "calculateBonusByProfit" /\ Len(out) > 1) =>
            out[Len(out)].bonus = 0

\* The last rank gets 0 when total > 3, where it is neither rank 1 nor rank 2.
LastRankGetsZeroAboveThree ==
    (call.fn = "calculateBonusByProfit" /\ pc = "done"
        /\ call.total > 3 /\ call.index = call.total - 1) => ret = 0

----------------------------------------------------------------------------
(* C5.  The strategies in options are optional: with valid data, when      *)
(* options is omitted or lacks calculateRevenue and/or calculateBonus, the *)
(* call does not fail on that account and calculateSimpleRevenue and       *)
(* calculateBonusByProfit are used for the missing strategies.             *)
C5_DefaultsForMissing ==
    (Analyzing /\ ~BadShape /\ pc \notin {"start", "options"}) =>
        /\ error # "OptionsTypeError"
        /\ (~options.given \/ ~options.calculateRevenue) =>
               calculateRevenue = "calculateSimpleRevenue"
        /\ (~options.given \/ ~options.calculateBonus) =>
               calculateBonus = "calculateBonusByProfit"

\* The defaults are bound whenever an options object is passed.
DefaultsForMissingWhenGiven == options.given => C5_DefaultsForMissing

----------------------------------------------------------------------------
(* C6 *)

ItemInvalid(item) ==
    \/ item.sale_price = Undefined
    \/ item.quantity = Undefined
    \/ item.sale_price < 0
    \/ item.quantity <= 0
    \/ item.discount # Undefined /\ (item.discount < 0 \/ item.discount > 100)

\* An item the fold hands to the revenue strategy: its record names a seller
\* of data.sellers and its sku a product of data.products.
InvalidItemInFold ==
    \E k \in 1..Len(Records) :
        /\ Records[k].seller_id \in SellerIdsGiven
        /\ \E n \in 1..Len(Records[k].items) :
              /\ Records[k].items[n].sku \in SkusGiven
              /\ ItemInvalid(Records[k].items[n])

(* C6.  If an item reached during the fold fails the validation of the     *)
(* default revenue strategy (sale_price or quantity absent, sale_price < 0, *)
(* quantity <= 0, discount outside [0,100]), analyzeSalesData raises the   *)
(* error and returns no report at all, however many records were folded    *)
(* before the bad item: the fold never completes, nothing is returned, and *)
(* calculateSimpleRevenue called on its own throws exactly on such items.  *)
C6_InvalidItemAbortsBatch ==
    /\ (Analyzing /\ ~BadShape /\ options.given /\ ~options.calculateRevenue
            /\ InvalidItemInFold) =>
          /\ ~FoldComplete
          /\ out = <<>>
          /\ pc = "error" => error \in {"ItemValidationError", "ProductsSoldTypeError"}
    /\ (Analyzing /\ pc = "error") => out = <<>>
    /\ (call.fn = "calculateSimpleRevenue" /\ pc # "start") =>
          ((pc = "error" /\ error = "ItemValidationError") <=> ItemInvalid(call.purchase))

\* C6's case: the batch aborted on a bad item after a record had been folded
\* into a seller, and nothing was returned.
C6_Witness ==
    /\ Analyzing
    /\ pc = "error"
    /\ error = "ItemValidationError"
    /\ ri >= 1
    /\ \E h \in 1..Len(heap) : heap[h].sales_count >= 1 /\ heap[h].profit > 0
    /\ out = <<>>

----------------------------------------------------------------------------
(* C7 *)

FoldOfKnownItems(record) ==
    LET h == SellerLookup(sellerIndex, record.seller_id)
        st0 == [heap |-> heap, ctor |-> objectCtor, warnings |-> warnings, error |-> "none"]
    IN  FoldItems(CountSale(st0, h, record), h,
                  SelectSeq(record.items, LAMBDA it : it.sku \in SkusGiven),
                  productIndex, calculateRevenue)

\* A step of the fold on a record whose seller_id is none of sellerKeys leaves
\* every seller as it was and goes on; a step on a seller's record does what
\* it would do with the items of unknown sku taken out.
UnresolvedStep(sellerKeys) ==
    (Analyzing /\ pc = "fold" /\ ri < Len(Records)) =>
        LET record == Records[ri + 1]
        IN  /\ record.seller_id \notin sellerKeys =>
                  error' = "none" /\ heap' = heap /\ ri' = ri + 1
            /\ record.seller_id \in SellerIdsGiven =>
                  /\ heap' = FoldOfKnownItems(record).heap
                  /\ error' = FoldOfKnownItems(record).error
                  /\ error' = "none" => ri' = ri + 1

(* C7.  Unresolved references are not fatal and change no total: a record  *)
(* whose seller_id matches no seller of data.sellers does not raise and    *)
(* leaves every seller's sales_count, revenue, profit and products_sold    *)
(* unchanged; an item whose sku matches no product is skipped, while the   *)
(* rest of its record and all later records are still folded.              *)
C7_UnresolvedHarmless == [][UnresolvedStep(SellerIdsGiven)]_vars

\* It holds of seller ids that name no property of Object.prototype either.
UnresolvedHarmlessOffPrototype ==
    [][UnresolvedStep(SellerIdsGiven \cup ObjectPrototypeKeys)]_vars

----------------------------------------------------------------------------
(* C8 *)

RevenueStrategyBound ==
    IF options.calculateRevenue THEN "caller" ELSE "calculateSimpleRevenue"

MarginOf(item) ==
    JsSub(ApplyRevenue(RevenueStrategyBound, item, CardOf(item.sku)).value,
          OrZero(CardOf(item.sku).purchase_price) * item.quantity)

(* C8.  For every seller, the profit the fold accumulates is the sum,      *)
(* over every item with a known sku of every record of that seller, of     *)
(* item_revenue - purchase_price * quantity, item_revenue being the        *)
(* revenue strategy's result and an absent purchase_price a cost of 0.     *)
C8_ProfitIsSumOfMargins ==
    (FoldComplete /\ UniqueSellerIds) =>
        \A h \in 1..Len(heap) :
            heap[h].profit =
                Sum([k \in 1..Len(KnownItemsOf(heap[h].id)) |->
                        MarginOf(KnownItemsOf(heap[h].id)[k])])

\* The sum is right when every card a folded item names has a purchase_price.
PricedItemsOnly ==
    \A k \in 1..Len(Records) : \A n \in 1..Len(Records[k].items) :
        Records[k].items[n].sku \in SkusGiven =>
            CardOf(Records[k].items[n].sku).purchase_price # Undefined
ProfitIsSumWhenPriced == PricedItemsOnly => C8_ProfitIsSumOfMargins

----------------------------------------------------------------------------
(* C9 *)

NetOf(record) == OrZero(record.total_amount) - OrZero(record.total_discount)

(* C9.  For every seller, after the fold sales_count is the number of     *)
(* purchase records with that seller's id and revenue is the sum over      *)
(* those records of total_amount - total_discount, an absent total_amount  *)
(* or total_discount counting as 0.                                        *)
C9_CountAndRevenue ==
    (FoldComplete /\ UniqueSellerIds) =>
        \A h \in 1..Len(heap) :
            /\ heap[h].sales_count = Len(RecordsOf(heap[h].id))
            /\ heap[h].revenue =
                   Sum([k \in 1..Len(RecordsOf(heap[h].id)) |-> NetOf(RecordsOf(heap[h].id)[k])])

\* Count and revenue are right when every record has both amounts.
AmountsPresent ==
    \A k \in 1..Len(Records) :
        Records[k].total_amount # Undefined /\ Records[k].total_discount # Undefined
CountAndRevenueWhenPresent == AmountsPresent => C9_CountAndRevenue

----------------------------------------------------------------------------
(* C10 *)

QuantityOf(id, sku) ==
    Sum([k \in 1..Len(KnownItemsOf(id)) |->
            IF KnownItemsOf(id)[k].sku = sku THEN KnownItemsOf(id)[k].quantity ELSE 0])

SkusSoldBy(id) == {KnownItemsOf(id)[k].sku : k \in 1..Len(KnownItemsOf(id))}

FirstSeen(id, sku) ==
    CHOOSE k \in 1..Len(KnownItemsOf(id)) :
        KnownItemsOf(id)[k].sku = sku /\ \A j \in 1..(k - 1) : KnownItemsOf(id)[j].sku # sku

\* Rank of a key in Object.entries: array indices ascending, then first seen.
KeyRank(id, sku) ==
    IF sku \in DOMAIN ArrayIndexKeys THEN ArrayIndexKeys[sku] - 1000
    ELSE FirstSeen(id, sku)

TopProductsHold(id, top, TieRank(_, _)) ==
    /\ Len(top) = IF Cardinality(SkusSoldBy(id)) < 10 THEN Cardinality(SkusSoldBy(id)) ELSE 10
    /\ \A a \in 1..Len(top) :
          /\ top[a].sku \in SkusSoldBy(id)
          /\ top[a].quantity = QuantityOf(id, top[a].sku)
          /\ \A sku \in SkusSoldBy(id) \ {top[b].sku : b \in 1..Len(top)} :
                QuantityOf(id, sku) <= top[a].quantity
    /\ \A a, b \in 1..Len(top) : a < b =>
          /\ top[a].sku # top[b].sku
          /\ top[a].quantity >= top[b].quantity
          /\ top[a].quantity = top[b].quantity =>
                TieRank(id, top[a].sku) < TieRank(id, top[b].sku)

(* C10.  For every report, top_products has at most 10 entries, holds the  *)
(* seller's highest cumulative quantities (summed over the whole input),   *)
(* is sorted by quantity descending, and entries of equal quantity are in  *)
(* the order in which their skus were first seen in the seller's items.    *)
C10_TopProducts ==
    (Reported /\ UniqueSellerIds) =>
        \A i \in 1..Len(out) :
            TopProductsHold(out[i].seller_id, out[i].top_products, FirstSeen)

\* All of it holds with ties in the key order of Object.entries instead.
TopProductsInKeyOrder ==
    (Reported /\ UniqueSellerIds) =>
        \A i \in 1..Len(out) :
            TopProductsHold(out[i].seller_id, out[i].top_products, KeyRank)

====
